---- MODULE Spec2Model ----
(***************************************************************************)
(* The sliding-puzzle engine of src/pic.py: the solvability predicate, the *)
(* reject-and-resample shuffle and the PuzzleApp handlers that own the     *)
(* board (on_create_puzzle, on_shuffle, on_reset, on_tile_click).          *)
(*                                                                         *)
(* Boards are Python lists: they are modelled as functions over 0..n-1 so  *)
(* that positions and tile indices keep the values they have in the code.  *)
(***************************************************************************)
EXTENDS Integers, FiniteSets, Sequences, TLC

VARIABLES image, tiles, grid_size, n_tiles, current_perm, blank_pos, status,
          dialog, buttons, moves, loop_perm, loop_pc

vars == <<image, tiles, grid_size, n_tiles, current_perm, blank_pos, status,
          dialog, buttons, moves, loop_perm, loop_pc>>

(* The attributes of PuzzleApp and what it shows. *)
app == <<image, tiles, grid_size, n_tiles, current_perm, blank_pos, status,
         dialog, buttons, moves>>

(* The puzzle state the handlers own. *)
puzzle == <<grid_size, tiles, n_tiles, current_perm, blank_pos>>

---------------------------------------------------------------------------
(* Bounds of the model *)

(* random.shuffle is a Fisher-Yates loop over i = n-1 .. 1 that swaps x[i]
   with x[j], j drawn from 0..i.  The draws are bounded: the first
   ShuffleSpread iterations draw j from i-ShuffleSpread..i (and from 0..i),
   the remaining iterations draw j = i. *)
ShuffleSpread == 2

(* Legal slides applied to a board since it was last installed. *)
MaxMoves == 4

(* Largest width and height of the images handed to split_image_to_tiles
   on its own. *)
MaxImageSide == 8

(* Values the user leaves in the grid-size spinbox before Create Puzzle:
   two below/above the accepted range and the grid sizes whose boards are
   small enough to enumerate. *)
GridChoices == {1, 2, 3, 7}

---------------------------------------------------------------------------
(* Python values *)

(* None, for the attributes that hold lists or images (an empty list is
   equally false in the handlers' `if not self.tiles` tests) *)
None == <<>>

(* None, for the attributes that hold integers *)
NoInt == -1

abs(x) == IF x < 0 THEN -x ELSE x

(* Mutant of range: the list is built in descending order. *)
range_reversed(n) == [i \in 0..(n - 1) |-> n - 1 - i]

(* list(range(n)) *)
range(n) == [i \in 0..(n - 1) |-> i]

(* list.index(v): the first position holding v *)
index(lst, v) == CHOOSE i \in DOMAIN lst : lst[i] = v /\ \A k \in DOMAIN lst : k < i => lst[k] # v

(* Mutant of swap: the second assignment of the exchange is lost. *)
swap_overwrite(lst, a, b) == [lst EXCEPT ![a] = lst[b]]

(* on_tile_click's exchange of two entries of current_perm *)
swap(lst, a, b) == [lst EXCEPT ![a] = lst[b], ![b] = lst[a]]

---------------------------------------------------------------------------
(* Tile partitioner *)

(* Mutant of split_image_to_tiles: left is computed from the row and top
   from the column. *)
split_image_to_tiles_transposed(w, h, n) ==
    LET tile_w == w \div n
        tile_h == h \div n
    IN [k \in 0..(n * n - 1) |->
          IF k = n * n - 1
          THEN [blank |-> TRUE, left |-> 0, top |-> 0, right |-> tile_w, bottom |-> tile_h]
          ELSE [blank |-> FALSE,
                left |-> (k \div n) * tile_w, top |-> (k % n) * tile_h,
                right |-> (k \div n) * tile_w + tile_w,
                bottom |-> (k % n) * tile_h + tile_h]]

(* Mutant of split_image_to_tiles: the tile height is taken from the width. *)
split_image_to_tiles_square_side(w, h, n) ==
    LET side == w \div n
    IN [k \in 0..(n * n - 1) |->
          IF k = n * n - 1
          THEN [blank |-> TRUE, left |-> 0, top |-> 0, right |-> side, bottom |-> side]
          ELSE [blank |-> FALSE,
                left |-> (k % n) * side, top |-> (k \div n) * side,
                right |-> (k % n) * side + side,
                bottom |-> (k \div n) * side + side]]

(* One crop box per (row, col) in row-major order; the last tile is replaced
   by a solid-colour blank of the same size. *)
split_image_to_tiles(w, h, n) ==
    LET tile_w == w \div n
        tile_h == h \div n
        crop(k) == LET row == k \div n
                       col == k % n
                   IN [blank |-> FALSE,
                       left |-> col * tile_w, top |-> row * tile_h,
                       right |-> col * tile_w + tile_w,
                       bottom |-> row * tile_h + tile_h]
    IN [k \in 0..(n * n - 1) |->
          IF k = n * n - 1
          THEN [blank |-> TRUE, left |-> 0, top |-> 0, right |-> tile_w, bottom |-> tile_h]
          ELSE crop(k)]

(* tile_size = max(64, min(160, 512 // n)) *)
tile_size(n) ==
    LET m == IF 512 \div n < 160 THEN 512 \div n ELSE 160
    IN IF m > 64 THEN m ELSE 64

---------------------------------------------------------------------------
(* Solvability *)

(* inv_count over arr, the permutation without the blank value N-1 *)
inv_count(permutation) ==
    LET N == Cardinality(DOMAIN permutation)
    IN Cardinality({ij \in (DOMAIN permutation) \X (DOMAIN permutation) :
                      /\ ij[1] < ij[2]
                      /\ permutation[ij[1]] # N - 1
                      /\ permutation[ij[2]] # N - 1
                      /\ permutation[ij[1]] > permutation[ij[2]]})

(* Mutant of is_solvable: the blank row is left out on even grids. *)
is_solvable_ignores_blank_row(permutation, grid) == inv_count(permutation) % 2 = 0

is_solvable(permutation, grid) ==
    LET N == Cardinality(DOMAIN permutation)
    IN IF grid % 2 = 1
       THEN inv_count(permutation) % 2 = 0
       ELSE LET blank_index == index(permutation, N - 1)
                row_from_top == blank_index \div grid
                row_from_bottom == grid - row_from_top
            IN (inv_count(permutation) + row_from_bottom) % 2 = 0

---------------------------------------------------------------------------
(* Shuffle *)

(* randbelow(i + 1), within the bound *)
randbelow(i) == {j \in 0..i : j >= i - ShuffleSpread}

RECURSIVE FisherYates(_, _, _)
FisherYates(xs, i, free) ==
    IF i < 1 \/ free = 0
    THEN xs
    ELSE FisherYates({[x EXCEPT ![i] = x[j], ![j] = x[i]] : x \in xs, j \in randbelow(i)},
                     i - 1, free - 1)

(* The arrangements one random.shuffle(perm) can leave in perm. *)
random_shuffle(n) == FisherYates({range(n)}, n - 1, ShuffleSpread)

(* Mutant of accepted: the comparison with the solved board is inverted. *)
accepted_only_identity(perm, n, grid) == is_solvable(perm, grid) /\ perm = range(n)

(* Mutant of accepted: the comparison with the solved board is left out. *)
accepted_any_solvable(perm, n, grid) == is_solvable(perm, grid)

(* The test that ends the resampling loop. *)
accepted(perm, n, grid) == is_solvable(perm, grid) /\ perm # range(n)

(* The boards every create/shuffle can draw, per accepted grid size; the
   loop returns the first accepted draw, so its results are the accepted
   draws. *)
SolvableDraws ==
    [g \in {c \in GridChoices : c >= 2 /\ c <= 6} |->
        {perm \in random_shuffle(g * g) : accepted(perm, g * g, g)}]

make_solvable_permutation(n, grid) == SolvableDraws[grid]

---------------------------------------------------------------------------
(* Status-bar texts and message boxes *)

StNoImage == <<"No image yet.">>
StGenerated == <<"Placeholder image created (no API key).">>
StCreated(n) == <<"Puzzle created", n>>
StShuffled == <<"Shuffled puzzle.">>
StReset == <<"Reset: solved state.">>
StSolved == <<"Solved!">>
StMoved == <<"Moved tile.">>
StIllegal == <<"Click an adjacent tile to the blank to move.">>

DlgNone == "none"
DlgNoImage == "No image"
DlgGridSize == "Grid size"
DlgNoPuzzle == "No puzzle"
DlgCongratulations == "Congratulations"

---------------------------------------------------------------------------
(* PuzzleApp *)

Init ==
    /\ image = None
    /\ tiles = None
    /\ grid_size = 3
    /\ n_tiles = NoInt
    /\ current_perm = None
    /\ blank_pos = NoInt
    /\ status = StNoImage
    /\ dialog = DlgNone
    /\ buttons = 0
    /\ moves = 0
    /\ loop_perm = None
    /\ loop_pc = "idle"

(* Mutant of create_puzzle: grid_size is assigned before the range check. *)
create_puzzle_assigns_first(img, st, btns, n) ==
    IF img = None
    THEN /\ dialog' = DlgNoImage
         /\ status' = st
         /\ buttons' = btns
         /\ UNCHANGED <<puzzle, moves>>
    ELSE IF n < 2 \/ n > 6
    THEN /\ dialog' = DlgGridSize
         /\ status' = st
         /\ buttons' = btns
         /\ grid_size' = n
         /\ UNCHANGED <<tiles, n_tiles, current_perm, blank_pos, moves>>
    ELSE LET count == n * n
         IN \E perm \in make_solvable_permutation(count, n) :
              /\ grid_size' = n
              /\ tiles' = split_image_to_tiles(tile_size(n) * n, tile_size(n) * n, n)
              /\ n_tiles' = count
              /\ current_perm' = perm
              /\ blank_pos' = index(perm, count - 1)
              /\ status' = StCreated(n)
              /\ dialog' = DlgNone
              /\ buttons' = count
              /\ moves' = 0

(* The body of on_create_puzzle with the spinbox holding n; st is the status
   text and btns the number of tile buttons on the board when it is called. *)
create_puzzle(img, st, btns, n) ==
    IF img = None
    THEN /\ dialog' = DlgNoImage
         /\ status' = st
         /\ buttons' = btns
         /\ UNCHANGED <<puzzle, moves>>
    ELSE IF n < 2 \/ n > 6
    THEN /\ dialog' = DlgGridSize
         /\ status' = st
         /\ buttons' = btns
         /\ UNCHANGED <<puzzle, moves>>
    ELSE LET full_size == tile_size(n) * n
             new_tiles == split_image_to_tiles(full_size, full_size, n)
             count == Cardinality(DOMAIN new_tiles)
         IN \E perm \in make_solvable_permutation(count, n) :
              /\ grid_size' = n
              /\ tiles' = new_tiles
              /\ n_tiles' = count
              /\ current_perm' = perm
              /\ blank_pos' = index(perm, count - 1)
              /\ status' = StCreated(n)
              /\ dialog' = DlgNone
              /\ buttons' = count
              /\ moves' = 0

on_create_puzzle(n) ==
    /\ create_puzzle(image, status, buttons, n)
    /\ UNCHANGED image

(* on_generate without an API key: a 512x512 placeholder, whose preview
   replaces the tile buttons on the board, then on_create_puzzle *)
on_generate(n) ==
    /\ image' = <<512, 512>>
    /\ create_puzzle(image', StGenerated, 0, n)

on_shuffle ==
    IF tiles = None
    THEN /\ dialog' = DlgNoPuzzle
         /\ UNCHANGED <<image, puzzle, status, buttons, moves>>
    ELSE \E perm \in make_solvable_permutation(n_tiles, grid_size) :
           /\ current_perm' = perm
           /\ blank_pos' = index(perm, n_tiles - 1)
           /\ status' = StShuffled
           /\ dialog' = DlgNone
           /\ buttons' = n_tiles
           /\ moves' = 0
           /\ UNCHANGED <<image, tiles, grid_size, n_tiles>>

(* Mutant of on_reset: the cached blank position is not reset. *)
on_reset_keeps_blank_pos ==
    IF tiles = None
    THEN /\ dialog' = DlgNone
         /\ UNCHANGED <<image, puzzle, status, buttons, moves>>
    ELSE /\ current_perm' = range(n_tiles)
         /\ status' = StReset
         /\ dialog' = DlgNone
         /\ buttons' = n_tiles
         /\ moves' = 0
         /\ UNCHANGED <<image, tiles, grid_size, n_tiles, blank_pos>>

on_reset ==
    IF tiles = None
    THEN /\ dialog' = DlgNone
         /\ UNCHANGED <<image, puzzle, status, buttons, moves>>
    ELSE /\ current_perm' = range(n_tiles)
         /\ blank_pos' = n_tiles - 1
         /\ status' = StReset
         /\ dialog' = DlgNone
         /\ buttons' = n_tiles
         /\ moves' = 0
         /\ UNCHANGED <<image, tiles, grid_size, n_tiles>>

(* Mutant of adjacent: the differences are compared without abs(). *)
adjacent_no_abs(pos, blank, n) ==
    \/ ((pos \div n) - (blank \div n) = 1 /\ pos % n = blank % n)
    \/ ((pos % n) - (blank % n) = 1 /\ pos \div n = blank \div n)

(* Mutant of adjacent: neighbours are taken from the flat index, so the
   last cell of a row counts as next to the first cell of the following row. *)
adjacent_by_index(pos, blank, n) == abs(pos - blank) = 1 \/ abs(pos - blank) = n

(* Mutant of adjacent: the same-row case is left out. *)
adjacent_column_only(pos, blank, n) ==
    abs((pos \div n) - (blank \div n)) = 1 /\ pos % n = blank % n

(* The condition under which on_tile_click swaps. *)
adjacent(pos, blank, n) ==
    LET r == pos \div n
        c == pos % n
        br == blank \div n
        bc == blank % n
    IN (abs(r - br) = 1 /\ c = bc) \/ (abs(c - bc) = 1 /\ r = br)

(* Mutant of solved: only the blank is compared with its home position. *)
solved_blank_home(perm, n) == perm[n - 1] = n - 1

(* The test on_tile_click makes after a swap. *)
solved(perm, n) == perm = range(n)

(* Mutant of on_tile_click: a solved board no longer accepts moves. *)
on_tile_click_locked_when_solved(pos) ==
    IF tiles = None
    THEN /\ dialog' = DlgNone
         /\ UNCHANGED <<image, puzzle, status, buttons, moves>>
    ELSE IF adjacent(pos, blank_pos, grid_size) /\ ~solved(current_perm, n_tiles)
    THEN /\ moves < MaxMoves
         /\ current_perm' = swap(current_perm, blank_pos, pos)
         /\ blank_pos' = pos
         /\ IF solved(current_perm', n_tiles)
            THEN status' = StSolved /\ dialog' = DlgCongratulations
            ELSE status' = StMoved /\ dialog' = DlgNone
         /\ buttons' = n_tiles
         /\ moves' = moves + 1
         /\ UNCHANGED <<image, tiles, grid_size, n_tiles>>
    ELSE /\ status' = StIllegal
         /\ dialog' = DlgNone
         /\ UNCHANGED <<image, puzzle, buttons, moves>>

on_tile_click(pos) ==
    IF tiles = None
    THEN /\ dialog' = DlgNone
         /\ UNCHANGED <<image, puzzle, status, buttons, moves>>
    ELSE IF adjacent(pos, blank_pos, grid_size)
    THEN /\ moves < MaxMoves
         /\ current_perm' = swap(current_perm, blank_pos, pos)
         /\ blank_pos' = pos
         /\ IF solved(current_perm', n_tiles)
            THEN status' = StSolved /\ dialog' = DlgCongratulations
            ELSE status' = StMoved /\ dialog' = DlgNone
         /\ buttons' = n_tiles
         /\ moves' = moves + 1
         /\ UNCHANGED <<image, tiles, grid_size, n_tiles>>
    ELSE /\ status' = StIllegal
         /\ dialog' = DlgNone
         /\ UNCHANGED <<image, puzzle, buttons, moves>>

(* The positions render_tiles gave a button: one per board position.  No
   button exists before the first puzzle, nor while a preview is shown. *)
Buttons == 0..(buttons - 1)

(* The handlers run make_solvable_permutation to its return: its loop is
   not in progress between two events. *)
between_events == UNCHANGED <<loop_perm, loop_pc>>

Next ==
    \/ \E n \in GridChoices : on_create_puzzle(n) /\ between_events
    \/ \E n \in GridChoices : on_generate(n) /\ between_events
    \/ on_shuffle /\ between_events
    \/ on_reset /\ between_events
    \/ \E pos \in Buttons : on_tile_click(pos) /\ between_events

Spec == Init /\ [][Next]_vars

---------------------------------------------------------------------------
(* make_solvable_permutation, one loop iteration at a time: n_tiles and
   grid_size hold its arguments (every grid size on_create_puzzle lets
   through), loop_perm its local list perm. *)

InitLoop ==
    /\ image = None
    /\ tiles = None
    /\ grid_size \in 2..6
    /\ n_tiles = grid_size * grid_size
    /\ current_perm = None
    /\ blank_pos = NoInt
    /\ status = StNoImage
    /\ dialog = DlgNone
    /\ buttons = 0
    /\ moves = 0
    /\ loop_perm = range(n_tiles)
    /\ loop_pc = "shuffle"

(* random.shuffle(perm), in place *)
LoopShuffle ==
    /\ loop_pc = "shuffle"
    /\ loop_perm' \in FisherYates({loop_perm}, n_tiles - 1, ShuffleSpread)
    /\ loop_pc' = "test"
    /\ UNCHANGED app

(* if is_solvable(perm, grid_size) and perm != list(range(n_tiles)): return *)
LoopTest ==
    /\ loop_pc = "test"
    /\ loop_pc' = IF accepted(loop_perm, n_tiles, grid_size) THEN "return" ELSE "shuffle"
    /\ UNCHANGED <<app, loop_perm>>

NextLoop == LoopShuffle \/ LoopTest

(* A shuffle whose result the test accepts. *)
AcceptedDraw == LoopShuffle /\ accepted(loop_perm', n_tiles, grid_size)

(* The loop keeps running, and random.shuffle is a fair sampler: an
   arrangement that can be drawn again and again is eventually drawn. *)
SpecLoop ==
    InitLoop /\ [][NextLoop]_vars /\ WF_vars(LoopTest) /\ SF_vars(AcceptedDraw)

---------------------------------------------------------------------------
(* split_image_to_tiles on its own: image holds the size of the image it is
   given, grid_size its argument grid_size, tiles its result. *)

InitTiles ==
    /\ image \in (2..MaxImageSide) \X (2..MaxImageSide)
    /\ tiles = None
    /\ grid_size \in 2..6
    /\ n_tiles = NoInt
    /\ current_perm = None
    /\ blank_pos = NoInt
    /\ status = StNoImage
    /\ dialog = DlgNone
    /\ buttons = 0
    /\ moves = 0
    /\ loop_perm = None
    /\ loop_pc = "idle"

(* self.tiles = split_image_to_tiles(image, n); self.n_tiles = len(self.tiles) *)
Partition ==
    /\ n_tiles = NoInt
    /\ tiles' = split_image_to_tiles(image[1], image[2], grid_size)
    /\ n_tiles' = Cardinality(DOMAIN tiles')
    /\ UNCHANGED <<image, grid_size, current_perm, blank_pos, status, dialog,
                   buttons, moves, loop_perm, loop_pc>>

NextTiles == Partition

SpecTiles == InitTiles /\ [][NextTiles]_vars

---------------------------------------------------------------------------
(* Vocabulary of the properties, stated without the code's own helpers *)

(* The solved board of an n-tile puzzle: board[i] = i. *)
IdentityBoard(n) == [i \in 0..(n - 1) |-> i]

(* Manhattan distance 1 on the g x g grid. *)
OrthAdjacent(p, q, g) ==
    LET dr == (p \div g) - (q \div g)
        dc == (p % g) - (q % g)
    IN (IF dr < 0 THEN -dr ELSE dr) + (IF dc < 0 THEN -dc ELSE dc) = 1

(* Where a board holds its blank (the largest value). *)
BlankOf(board) == CHOOSE p \in DOMAIN board : board[p] = Cardinality(DOMAIN board) - 1

(* The boards one legal slide away from a board. *)
Slides(board, g) ==
    {[board EXCEPT ![BlankOf(board)] = board[q], ![q] = board[BlankOf(board)]] :
        q \in {q \in DOMAIN board : OrthAdjacent(q, BlankOf(board), g)}}

(* The boards reachable from a set of boards by finitely many legal slides. *)
RECURSIVE SlideClosure(_, _)
SlideClosure(boards, g) ==
    LET more == boards \cup UNION {Slides(b, g) : b \in boards}
    IN IF more = boards THEN boards ELSE SlideClosure(more, g)

(* A puzzle was installed by on_create_puzzle or on_shuffle and nothing has
   touched the board since. *)
JustShuffled == status = StShuffled \/ status = StCreated(grid_size)

HasPuzzle == tiles # None

---------------------------------------------------------------------------
(* Properties *)

(* C1: is_solvable(P, N) is true exactly of the boards P reachable from the
   identity board by legal slides.  Stated on the boards the program holds
   on the 2 x 2 grid, where the slide closure of the identity is small
   enough to enumerate. *)
C1_SolvableIffReachable ==
    (HasPuzzle /\ grid_size = 2) =>
        (is_solvable(current_perm, grid_size)
            <=> current_perm \in SlideClosure({IdentityBoard(n_tiles)}, grid_size))

(* C2: from every board on_create_puzzle or on_shuffle installs, the solved
   board is reachable by legal tile clicks.  Stated on the 2 x 2 grid, where
   the slide closure of a board is small enough to enumerate. *)
C2_ShuffledBoardCanBeSolved ==
    (HasPuzzle /\ JustShuffled /\ grid_size = 2) =>
        IdentityBoard(n_tiles) \in SlideClosure({current_perm}, grid_size)

(* C3: the board a shuffle installs satisfies is_solvable and is not the
   identity, so the puzzle is unsolved right after a shuffle. *)
C3_ShuffleSolvableNotIdentity ==
    (HasPuzzle /\ JustShuffled) =>
        /\ is_solvable(current_perm, grid_size)
        /\ current_perm # IdentityBoard(grid_size * grid_size)

C3_Witness == HasPuzzle /\ status = StShuffled /\ grid_size = 3

(* C4: current_perm is always a permutation of 0..N*N-1: N*N entries, every
   value exactly once. *)
C4_BoardIsPermutation ==
    HasPuzzle =>
        /\ DOMAIN current_perm = 0..(grid_size * grid_size - 1)
        /\ \A v \in 0..(grid_size * grid_size - 1) :
              Cardinality({p \in DOMAIN current_perm : current_perm[p] = v}) = 1

C4_Witness == HasPuzzle /\ moves = MaxMoves /\ status = StMoved

(* C5: the cached blank_pos is the position of the blank:
   current_perm[blank_pos] = N*N-1. *)
C5_BlankPosConsistent ==
    HasPuzzle =>
        /\ blank_pos \in DOMAIN current_perm
        /\ current_perm[blank_pos] = grid_size * grid_size - 1

C5_Witness == HasPuzzle /\ moves > 0 /\ blank_pos # BlankOf(IdentityBoard(n_tiles))

(* C6: a click on a position that is not orthogonally adjacent to the blank
   (the blank itself, a diagonal neighbour, blank_pos +/- 1 across a row
   boundary, ...) leaves current_perm and blank_pos unchanged and reports the
   illegal move in the status bar, with no message box. *)
C6_IllegalClickIsNoOp ==
    [][\A p \in Buttons :
          (on_tile_click(p) /\ ~OrthAdjacent(p, blank_pos, grid_size)) =>
              /\ UNCHANGED <<current_perm, blank_pos>>
              /\ status' = StIllegal
              /\ dialog' = DlgNone]_vars

C6_Witness ==
    /\ HasPuzzle /\ status = StIllegal
    /\ grid_size = 3 /\ blank_pos % grid_size = grid_size - 1 /\ blank_pos + 1 < n_tiles

(* C7: a click on a position p orthogonally adjacent to the blank swaps
   exactly the entries at p and at the old blank_pos and sets blank_pos to p. *)
C7_LegalClickSwapsTwo ==
    [][\A p \in Buttons :
          (on_tile_click(p) /\ OrthAdjacent(p, blank_pos, grid_size)) =>
              /\ current_perm'[p] = grid_size * grid_size - 1
              /\ current_perm'[blank_pos] = current_perm[p]
              /\ \A q \in DOMAIN current_perm :
                    q \notin {p, blank_pos} => current_perm'[q] = current_perm[q]
              /\ DOMAIN current_perm' = DOMAIN current_perm
              /\ blank_pos' = p]_vars

C7_Witness == HasPuzzle /\ status = StMoved /\ moves = 1

(* C8: on_reset installs the identity board with blank_pos = N*N-1. *)
C8_ResetInstallsIdentity ==
    (HasPuzzle /\ status = StReset) =>
        /\ current_perm = IdentityBoard(grid_size * grid_size)
        /\ blank_pos = grid_size * grid_size - 1

C8_Witness == HasPuzzle /\ status = StReset /\ grid_size = 2

(* C9: a click reports "solved" exactly when it is a legal move whose board
   after the swap is the identity; an illegal click never reports solved. *)
C9_SolvedIffIdentity ==
    [][\A p \in Buttons :
          on_tile_click(p) =>
              /\ (status' = StSolved) <=>
                    (/\ OrthAdjacent(p, blank_pos, grid_size)
                     /\ current_perm' = IdentityBoard(grid_size * grid_size))
              /\ (dialog' = DlgCongratulations) <=> (status' = StSolved)]_vars

C9_Witness == HasPuzzle /\ status = StSolved /\ moves > 0

(* C10: a create-puzzle request with a grid size outside 2..6 is rejected with
   the puzzle state unchanged; with a grid size inside 2..6 (and an image to
   cut up) it installs a board of N*N entries. *)
C10_CreateChecksGridSize ==
    [][\A n \in GridChoices :
          (on_create_puzzle(n) \/ on_generate(n)) =>
              IF n < 2 \/ n > 6
              THEN /\ UNCHANGED <<grid_size, tiles, n_tiles, current_perm, blank_pos>>
                   /\ dialog' \in {DlgGridSize, DlgNoImage}
              ELSE image' # None =>
                     /\ grid_size' = n
                     /\ DOMAIN current_perm' = 0..(n * n - 1)
                     /\ DOMAIN tiles' = 0..(n * n - 1)]_vars

C10_Witness == HasPuzzle /\ dialog = DlgGridSize /\ grid_size = 2

(* C11: the reject-and-resample loop of make_solvable_permutation terminates
   under fair sampling: an accepted permutation (solvable per is_solvable and
   not the identity) is eventually returned. *)
C11_ShuffleTerminates ==
    <>(loop_pc = "return" /\ is_solvable(loop_perm, grid_size)
                          /\ loop_perm # IdentityBoard(grid_size * grid_size))

C11_Witness == loop_pc = "return" /\ loop_perm \notin random_shuffle(n_tiles)

(* The partitioner has run on the image. *)
Partitioned == n_tiles # NoInt

(* Two crop boxes share no pixel. *)
Disjoint(a, b) ==
    \/ a.right <= b.left \/ b.right <= a.left
    \/ a.bottom <= b.top \/ b.bottom <= a.top

(* C12: an S x S image (S >= N) yields exactly N*N tiles in row-major order;
   tile k is the crop with top-left corner ((k mod N)*floor(S/N),
   (k div N)*floor(S/N)) and side floor(S/N); the crops lie inside the image
   and do not overlap; the tile at index N*N-1 is the synthesized blank. *)
C12_SquareImagePartition ==
    (Partitioned /\ image[1] = image[2] /\ image[1] >= grid_size) =>
        LET S == image[1]
            N == grid_size
            side == S \div N
            crops == 0..(N * N - 2)
        IN /\ DOMAIN tiles = 0..(N * N - 1)
           /\ n_tiles = N * N
           /\ \A k \in crops :
                 /\ ~tiles[k].blank
                 /\ tiles[k].left = (k % N) * side
                 /\ tiles[k].top = (k \div N) * side
                 /\ tiles[k].right - tiles[k].left = side
                 /\ tiles[k].bottom - tiles[k].top = side
                 /\ tiles[k].left >= 0 /\ tiles[k].top >= 0
                 /\ tiles[k].right <= S /\ tiles[k].bottom <= S
           /\ \A k1, k2 \in crops : k1 # k2 => Disjoint(tiles[k1], tiles[k2])
           /\ tiles[N * N - 1].blank
           /\ tiles[N * N - 1].right - tiles[N * N - 1].left = side
           /\ tiles[N * N - 1].bottom - tiles[N * N - 1].top = side

C12_Witness ==
    /\ Partitioned /\ image[1] = image[2] /\ image[1] > grid_size
    /\ image[1] % grid_size # 0 /\ grid_size = 3

C14_MoveIsItsOwnInverse ==
    [][\A p \in Buttons :
          (on_tile_click(p) /\ OrthAdjacent(p, blank_pos, grid_size)) =>
              /\ OrthAdjacent(blank_pos, blank_pos', grid_size)
              /\ adjacent(blank_pos, blank_pos', grid_size)
              /\ swap(current_perm', blank_pos', blank_pos) = current_perm
              /\ solved(swap(current_perm', blank_pos', blank_pos), n_tiles)
                    <=> (current_perm = IdentityBoard(grid_size * grid_size))]_vars

C14_Witness ==
    /\ HasPuzzle /\ grid_size = 3 /\ moves = 2 /\ status = StSolved
    /\ current_perm = IdentityBoard(n_tiles)

(* C15: moves remain permitted on the solved board: a click next to the blank
   is applied like any legal move and leaves the puzzle unsolved; any other
   click is the usual no-op. *)
C15_SolvedBoardAcceptsMoves ==
    [][\A p \in Buttons :
          (on_tile_click(p) /\ current_perm = IdentityBoard(grid_size * grid_size)) =>
              IF OrthAdjacent(p, blank_pos, grid_size)
              THEN /\ current_perm' = [current_perm EXCEPT ![p] = current_perm[blank_pos],
                                                            ![blank_pos] = current_perm[p]]
                   /\ blank_pos' = p
                   /\ current_perm' # IdentityBoard(grid_size * grid_size)
                   /\ status' = StMoved
              ELSE /\ UNCHANGED <<current_perm, blank_pos>>
                   /\ status' = StIllegal]_vars

C15_Witness ==
    /\ HasPuzzle /\ status = StMoved /\ moves = 1
    /\ current_perm \in Slides(IdentityBoard(n_tiles), grid_size)

(* C16: every legal move preserves is_solvable(current_perm, grid_size): a
   slide within a row changes neither inv_count nor the blank row; a slide
   within a column flips the parity of both inv_count and the blank row on an
   even grid, and keeps the parity of inv_count on an odd grid. *)
C16_MovesPreserveSolvability ==
    [][\A p \in Buttons :
          (on_tile_click(p) /\ OrthAdjacent(p, blank_pos, grid_size)) =>
              LET g == grid_size
                  before == inv_count(current_perm)
                  after == inv_count(current_perm')
                  same_row == p \div g = blank_pos \div g
              IN /\ is_solvable(current_perm', g) = is_solvable(current_perm, g)
                 /\ same_row => (after = before /\ blank_pos' \div g = blank_pos \div g)
                 /\ (~same_row /\ g % 2 = 0) =>
                       /\ after % 2 # before % 2
                       /\ (blank_pos' \div g) % 2 # (blank_pos \div g) % 2
                 /\ (~same_row /\ g % 2 = 1) => after % 2 = before % 2]_vars

C16_Witness == HasPuzzle /\ status = StMoved /\ grid_size = 2 /\ moves = 2

(* C17: before any puzzle exists on_shuffle, on_reset and on_tile_click leave
   current_perm, blank_pos and grid_size unchanged; once a puzzle exists
   n_tiles = grid_size * grid_size in every state. *)
C17_NoPuzzleNoOpAndTileCount ==
    /\ [](HasPuzzle => n_tiles = grid_size * grid_size)
    /\ [][(tiles = None /\ (\/ on_shuffle
                             \/ on_reset
                             \/ \E p \in 0..(6 * 6 - 1) : on_tile_click(p))) =>
             UNCHANGED <<current_perm, blank_pos, grid_size>>]_vars

C17_Witness == tiles = None /\ dialog = DlgNoPuzzle /\ image # None

====
